---- MODULE Spec2Model ----
(***************************************************************************)
(* Model of devices/nanopore/scripts/analyze_iv.py: the small-signal       *)
(* extractor, the bias-point sampler, input resolution, and the run of     *)
(* main from the results directory to the exit status.                     *)
(*                                                                         *)
(* Numbers.  Voltages and currents of a series are integers (a voltage     *)
(* unit of 0.05 V and a current unit of 0.5 uA make Scenario A the series  *)
(* V = I = <<-2,-1,0,1,2>> with window 1).  A Python float computed from   *)
(* them is an exact rational <<"fin", n, d>> in lowest terms with d > 0,   *)
(* or <<"inf">>, or <<"nan">>; rounding is not modelled.                   *)
(***************************************************************************)
EXTENDS Integers, Sequences, FiniteSets, TLC

VARIABLES
    pc,        \* position of main: "resolve", "find", "load", "mkdir",
               \* "metrics", "json", "txt", "plots", "exit"; "fn" in SpecFn
    args,      \* the parsed command line (argparse.Namespace)
    fs,        \* the file system main finds: results dir, its CSVs, blocked outputs
    csv_path,  \* the CSV file main resolved, or "none"
    header_line, \* the raw header fields load_iv_csv read, or <<>>
    v,         \* loaded voltages
    i,         \* loaded currents
    g0,        \* main's g0, r0, ion, ioff: a float, or Unset before line 367
    r0,
    ion,
    ioff,
    metrics,   \* the metrics dict, a sequence of <<key, value>>, or <<>>
    written,   \* names of the output files this run has created
    jsonOut,   \* content of iv_metrics.json: sequence of <<key, token>>
    txtOut,    \* content of iv_metrics.txt: [banner, lines]
    err,       \* diagnostic of the failure that ended the run, or "none"
    status,    \* exit status of the process once pc = "exit", else -1
    call       \* SpecFn: the last function application [fn, arg, out]

vars == <<pc, args, fs, csv_path, header_line, v, i, g0, r0, ion, ioff, metrics, written,
          jsonOut, txtOut, err, status, call>>

---------------------------------------------------------------------------
(* Bounds *)

\* longest series given to the two functions in SpecFn
MaxLen == 3

\* most data rows of a CSV file read by main
MaxRows == 3

\* sample voltages and currents of SpecFn
VVals == {-2, -1, 0, 1, 2}

IVals == {-1, 0, 1}

\* fit windows (same unit as the voltages); 0 and -1 are the invalid ones
Windows == {-1, 0, 1, 2}

\* target voltages of current_at
Targets == {-1, 0, 2, 3}

\* cell values of the CSV files read by main
CellVals == {0, 1}

---------------------------------------------------------------------------
(* Floats as exact rationals *)

Abs(x) == IF x < 0 THEN -x ELSE x

RECURSIVE GCD(_, _)
GCD(a, b) == IF b = 0 THEN a ELSE GCD(b, a % b)

\* the float n/d (d # 0), in lowest terms with a positive denominator
Fin(n, d) ==
    LET g == GCD(Abs(n), Abs(d))
        s == IF d < 0 THEN -1 ELSE 1
    IN  <<"fin", (s * n) \div g, (s * d) \div g>>

Inf == <<"inf">>

NaN == <<"nan">>

\* a local of main that holds no float (not assigned yet; None)
Unset == <<"unset">>

\* a Python str
Str(s) == <<"str", s>>

IsFin(x) == x[1] = "fin"

IsZero(x) == IsFin(x) /\ x[2] = 0

\* float(1.0 / g0) for g0 # 0: nan propagates
Recip(x) == IF IsFin(x) THEN Fin(x[3], x[2]) ELSE NaN

RECURSIVE SumOver(_, _)
SumOver(S, f) ==
    IF S = {} THEN 0
    ELSE LET k == CHOOSE k \in S : TRUE
         IN  f[k] + SumOver(S \ {k}, f)

\* all sequences over S of length 0..n
SeqsUpTo(S, n) == UNION {[1..m -> S] : m \in 0..n}

---------------------------------------------------------------------------
(* Outcomes of a call: a returned value or a raised exception *)

NoErr == "none"

\* ValueError("delta_g0 window must be positive.")
InvalidFitWindow == "ValueError: delta_g0 window must be positive."

\* ValueError("Empty voltage array.")
EmptySeries == "ValueError: Empty voltage array."

\* numpy.polyfit on an empty x
PolyfitEmpty == "TypeError: expected non-empty vector for x"

\* numpy.linalg.lstsq on a matrix holding nan
SvdFailed == "LinAlgError: SVD did not converge in Linear Least Squares"

\* touched: whether the call has read the series when it ends
Return(val, touched) == [err |-> NoErr, val |-> val, touched |-> touched]

Raise(e, touched) == [err |-> e, val |-> <<>>, touched |-> touched]

---------------------------------------------------------------------------
(* compute_small_signal_g0 *)

\* np.polyfit(v[S], i[S], 1)[0]: the slope of the degree-1 least-squares fit
\* over the samples with index in S, as the set of outcomes a build can give.
\* polyfit scales the columns of the Vandermonde matrix to unit norm and
\* solves with lstsq, which returns the minimum-norm solution when the
\* matrix is rank deficient (all x equal): for x = c # 0 that is
\* mean(y)/(2c); for x = 0 the scaling divides 0 by 0 and lstsq is handed
\* nan, which raises LinAlgError or yields nan depending on the LAPACK.
polyfit(S, x, y) ==
    LET n   == Cardinality(S)
        Sx  == SumOver(S, x)
        Sy  == SumOver(S, y)
        Sxx == SumOver(S, [k \in DOMAIN x |-> x[k] * x[k]])
        Sxy == SumOver(S, [k \in DOMAIN x |-> x[k] * y[k]])
        D   == n * Sxx - Sx * Sx
        c   == x[CHOOSE k \in S : TRUE]
    IN  IF n = 0 THEN {Raise(PolyfitEmpty, TRUE)}
        ELSE IF D # 0 THEN {Return(Fin(n * Sxy - Sx * Sy, D), TRUE)}
        ELSE IF c # 0 THEN {Return(Fin(Sy, 2 * n * c), TRUE)}
        ELSE {Raise(SvdFailed, TRUE), Return(NaN, TRUE)}

\* mask = np.abs(v) <= window
Mask(x, window) == {k \in DOMAIN x : Abs(x[k]) <= window}

\* np.argsort(np.abs(v))[:2] as a set of indices: the default sort kind is
\* not stable, so among equal |v| any order is possible
NearestTwo(x) ==
    IF Len(x) < 2 THEN {DOMAIN x}
    ELSE {S \in SUBSET (DOMAIN x) :
            /\ Cardinality(S) = 2
            /\ \A a \in S : \A c \in (DOMAIN x) \ S : Abs(x[c]) >= Abs(x[a])}

\* lines 255-257: g0 = float(coeffs[0]); r0 = inf if g0 == 0.0 else 1.0 / g0
G0R0Mut(fit) ==
    IF fit.err # NoErr THEN fit
    ELSE Return(<<fit.val, IF IsZero(fit.val) THEN fit.val ELSE Recip(fit.val)>>, TRUE)

G0R0(fit) ==
    IF fit.err # NoErr THEN fit
    ELSE Return(<<fit.val, IF IsZero(fit.val) THEN Inf ELSE Recip(fit.val)>>, TRUE)

\* window check moved behind the fit
compute_small_signal_g0_late(x, y, window) ==
    LET mask == Mask(x, window)
        fits == IF Cardinality(mask) >= 2 THEN {mask} ELSE NearestTwo(x)
        outs == UNION {{G0R0(f) : f \in polyfit(S, x, y)} : S \in fits}
    IN  {IF window <= 0 /\ o.err = NoErr THEN Raise(InvalidFitWindow, TRUE) ELSE o :
            o \in outs}

\* the set of outcomes of compute_small_signal_g0(v, i, window)
compute_small_signal_g0(x, y, window) ==
    IF window <= 0 THEN {Raise(InvalidFitWindow, FALSE)}
    ELSE LET mask == Mask(x, window)
             fits == IF Cardinality(mask) >= 2 THEN {mask} ELSE NearestTwo(x)
         IN  UNION {{G0R0(f) : f \in polyfit(S, x, y)} : S \in fits}

---------------------------------------------------------------------------
(* current_at *)

\* the last index at which |x[k] - t| is minimal
ArgMinLast(x, t) ==
    CHOOSE k \in DOMAIN x :
        /\ \A j \in DOMAIN x : Abs(x[j] - t) >= Abs(x[k] - t)
        /\ \A j \in DOMAIN x : j > k => Abs(x[j] - t) > Abs(x[k] - t)

\* np.argmin(np.abs(v - target_v)): a left-to-right scan that keeps the
\* first minimum
RECURSIVE ArgMinScan(_, _, _, _)
ArgMinScan(x, t, k, best) ==
    IF k > Len(x) THEN best
    ELSE ArgMinScan(x, t, k + 1,
                    IF Abs(x[k] - t) < Abs(x[best] - t) THEN k ELSE best)

ArgMinMut(x, t) == ArgMinLast(x, t)

ArgMin(x, t) == ArgMinScan(x, t, 1, 1)

current_at(x, y, target_v) ==
    IF Len(x) = 0 THEN Raise(EmptySeries, TRUE)
    ELSE Return(Fin(y[ArgMin(x, target_v)], 1), TRUE)

---------------------------------------------------------------------------
(* The two functions applied to arbitrary series (SpecFn) *)

\* Scenario A of the property tests, in units of 0.05 V and 0.5 uA
ScenarioV == <<-2, -1, 0, 1, 2>>

ScenarioI == <<-2, -1, 0, 1, 2>>

NoArgs == [input |-> "none", v_col |-> "V", i_col |-> "I", v_on |-> 0,
           v_off |-> 0, delta_g0 |-> 0, log_plot |-> FALSE]

NoFs == [dir |-> FALSE, csvs |-> {}, blocked |-> {}]

NoTxt == [banner |-> <<>>, lines |-> <<>>]

NoCall == [fn |-> "none", arg |-> 0, out |-> Return(<<>>, FALSE)]

InitFn ==
    /\ pc = "fn"
    /\ \/ \E m \in 0..MaxLen : v \in [1..m -> VVals] /\ i \in [1..m -> IVals]
       \/ v = ScenarioV /\ i = ScenarioI
    /\ args = NoArgs
    /\ fs = NoFs
    /\ csv_path = "none"
    /\ header_line = <<>>
    /\ g0 = Unset
    /\ r0 = Unset
    /\ ion = Unset
    /\ ioff = Unset
    /\ metrics = <<>>
    /\ written = {}
    /\ jsonOut = <<>>
    /\ txtOut = NoTxt
    /\ err = NoErr
    /\ status = -1
    /\ call = NoCall

CallG0 ==
    /\ pc = "fn"
    /\ \E w \in Windows : \E out \in compute_small_signal_g0(v, i, w) :
          call' = [fn |-> "compute_small_signal_g0", arg |-> w, out |-> out]
    /\ UNCHANGED <<pc, args, fs, csv_path, header_line, v, i, g0, r0, ion, ioff, metrics,
                   written, jsonOut, txtOut, err, status>>

CallCurrentAt ==
    /\ pc = "fn"
    /\ \E t \in Targets :
          call' = [fn |-> "current_at", arg |-> t, out |-> current_at(v, i, t)]
    /\ UNCHANGED <<pc, args, fs, csv_path, header_line, v, i, g0, r0, ion, ioff, metrics,
                   written, jsonOut, txtOut, err, status>>

NextFn == CallG0 \/ CallCurrentAt

SpecFn == InitFn /\ [][NextFn]_vars

---------------------------------------------------------------------------
(* Claims about compute_small_signal_g0 and current_at, under SpecFn *)

G0Called == call.fn = "compute_small_signal_g0"

G0Returned == G0Called /\ call.out.err = NoErr

\* g is a least-squares slope of y against x over the samples in S: it
\* satisfies the normal equations, g * (n Sxx - Sx^2) = n Sxy - Sx Sy
IsOLSSlope(g, S, x, y) ==
    LET n   == Cardinality(S)
        Sx  == SumOver(S, x)
        Sy  == SumOver(S, y)
        Sxx == SumOver(S, [k \in DOMAIN x |-> x[k] * x[k]])
        Sxy == SumOver(S, [k \in DOMAIN x |-> x[k] * y[k]])
    IN  IsFin(g) /\ g[2] * (n * Sxx - Sx * Sx) = (n * Sxy - Sx * Sy) * g[3]

\* C1: for every window w > 0 and every series with at least 2 samples with
\* |V| <= w, g0 is the least-squares slope of I against V over exactly the
\* in-window samples; on Scenario A with w = 0.05 it is 1e-5 S and r0 is
\* 1e5 Ohm (1 and 1 in the model's units).
C1_WindowFitIsOLS ==
    (G0Called /\ call.arg > 0 /\ Cardinality(Mask(v, call.arg)) >= 2) =>
        /\ call.out.err = NoErr
        /\ IsOLSSlope(call.out.val[1], Mask(v, call.arg), v, i)
        /\ (v = ScenarioV /\ i = ScenarioI /\ call.arg = 1) =>
               call.out.val = <<Fin(1, 1), Fin(1, 1)>>

\* a and b are two samples whose |V| are the smallest of the whole series
TwoNearest(a, b) ==
    /\ a # b
    /\ \A c \in (DOMAIN v) \ {a, b} :
          Abs(v[c]) >= Abs(v[a]) /\ Abs(v[c]) >= Abs(v[b])

\* C2: for every window w > 0 and every series with fewer than 2 samples
\* with |V| <= w, g0 is the two-point slope (I_a - I_b)/(V_a - V_b) of the
\* two samples a, b nearest to 0 V over the whole series.
C2_FallbackIsTwoPointSlope ==
    (G0Called /\ call.arg > 0 /\ Cardinality(Mask(v, call.arg)) < 2) =>
        /\ call.out.err = NoErr
        /\ \E a, b \in DOMAIN v :
              /\ TwoNearest(a, b)
              /\ v[a] # v[b]
              /\ call.out.val[1] = Fin(i[a] - i[b], v[a] - v[b])

\* C3: for every window w > 0 and every series, the call returns a
\* well-defined numeric (g0, r0): no error, and no undefined (nan) slope.
C3_AlwaysANumber ==
    (G0Called /\ call.arg > 0) =>
        /\ call.out.err = NoErr
        /\ IsFin(call.out.val[1])
        /\ (IsFin(call.out.val[2]) \/ call.out.val[2] = Inf)

\* C4: for every returned (g0, r0), from the window fit or the fallback:
\* r0 * g0 = 1 when g0 # 0, and r0 = +inf when g0 = 0 (a nan slope, being
\* neither, gives the nan that 1/nan is).
C4_R0IsReciprocal ==
    G0Returned =>
        LET g == call.out.val[1]
            r == call.out.val[2]
        IN  /\ (IsFin(g) /\ ~IsZero(g)) =>
                  IsFin(r) /\ r[2] * g[2] = r[3] * g[3]
            /\ IsZero(g) => r = Inf
            /\ ~IsFin(g) => r = NaN

\* a fallback call that returned g0 = 0 and r0 = +inf
C4_Witness ==
    /\ G0Returned
    /\ Cardinality(Mask(v, call.arg)) < 2
    /\ IsZero(call.out.val[1])
    /\ call.out.val[2] = Inf

\* C5: for every window w <= 0 and every series, the call fails with the
\* invalid-fit-window error, with no element of the series read.
C5_InvalidWindowFirst ==
    (G0Called /\ call.arg <= 0) =>
        call.out.err = InvalidFitWindow /\ ~call.out.touched

\* the call on an empty series with window 0
C5_Witness ==
    G0Called /\ call.arg = 0 /\ Len(v) = 0 /\ call.out.err = InvalidFitWindow

\* k is the smallest index at which |V[k] - t| is minimal
FirstNearest(k, t) ==
    /\ \A j \in DOMAIN v : Abs(v[j] - t) >= Abs(v[k] - t)
    /\ \A j \in DOMAIN v : j < k => Abs(v[j] - t) > Abs(v[k] - t)

\* C6: for every non-empty series and target, current_at returns I[k] for
\* the smallest index k at which |V[k] - target| is minimal; on Scenario A
\* target 0.1 V gives 1e-6 A and target 0 V gives 0 (2 and 0 in the model's
\* units).
C6_CurrentAtFirstNearest ==
    (call.fn = "current_at" /\ Len(v) > 0) =>
        /\ call.out.err = NoErr
        /\ \E k \in DOMAIN v :
              FirstNearest(k, call.arg) /\ call.out.val = Fin(i[k], 1)
        /\ (v = ScenarioV /\ i = ScenarioI /\ call.arg = 2) =>
               call.out.val = Fin(2, 1)
        /\ (v = ScenarioV /\ i = ScenarioI /\ call.arg = 0) =>
               call.out.val = Fin(0, 1)

\* a tie: two samples at the same minimal distance with different currents
C6_Witness ==
    /\ call.fn = "current_at"
    /\ call.out.err = NoErr
    /\ \E j, k \in DOMAIN v :
          /\ j < k
          /\ FirstNearest(j, call.arg)
          /\ Abs(v[k] - call.arg) = Abs(v[j] - call.arg)
          /\ i[j] # i[k]
          /\ call.out.val = Fin(i[j], 1)

---------------------------------------------------------------------------
(* Input resolution *)

\* FileNotFoundError("Specified input CSV not found: ...")
InputNotFound == "FileNotFoundError: Specified input CSV not found"

\* FileNotFoundError("No CSV files found in ...")
NoCsvFound == "FileNotFoundError: No CSV files found"

\* RuntimeError("Multiple CSV files found in ...")
AmbiguousInput == "RuntimeError: Multiple CSV files found"

\* more than one candidate: the first of the listing is taken
find_csv_file_first(csvs, input_arg) ==
    IF input_arg # "none"
    THEN IF input_arg \in csvs THEN Return(input_arg, FALSE)
         ELSE Raise(InputNotFound, FALSE)
    ELSE IF Cardinality(csvs) = 0 THEN Raise(NoCsvFound, FALSE)
    ELSE Return(CHOOSE f \in csvs : TRUE, FALSE)

\* find_csv_file(results_dir, input_arg); csvs is results_dir.glob("*.csv"),
\* and an input_arg names a file of results_dir that exists iff it is listed
find_csv_file(csvs, input_arg) ==
    IF input_arg # "none"
    THEN IF input_arg \in csvs THEN Return(input_arg, FALSE)
         ELSE Raise(InputNotFound, FALSE)
    ELSE IF Cardinality(csvs) = 0 THEN Raise(NoCsvFound, FALSE)
    ELSE IF Cardinality(csvs) > 1 THEN Raise(AmbiguousInput, FALSE)
    ELSE Return(CHOOSE f \in csvs : TRUE, FALSE)

---------------------------------------------------------------------------
(* load_iv_csv *)

EmptyHeader == "ValueError: Empty or invalid header in CSV file"

\* the two "column not found" messages, up to the column name
VColMissing == "ValueError: Voltage column"

IColMissing == "ValueError: Current column"

\* str(header): the names in order, quoted, separated by ", "
RECURSIVE JoinNames(_)
JoinNames(names) ==
    IF names = <<>> THEN ""
    ELSE "'" \o Head(names) \o "'"
         \o (IF Tail(names) = <<>> THEN "" ELSE ", ") \o JoinNames(Tail(names))

\* the message without the available columns
MissingColumnBare(kind, name, header) ==
    kind \o " '" \o name \o "' not found."

\* f"{kind} '{name}' not found in {path}.\nAvailable columns: {header}"
MissingColumn(kind, name, header) ==
    kind \o " '" \o name \o "' not found. Available columns: ["
         \o JoinNames(header) \o "]"

\* data[0] on an array of shape (0,)
NoData == "IndexError: index 0 is out of bounds for axis 0 with size 0"

\* a raw header field is [name, pad]: the name with or without blanks
\* around it; h.strip() drops the blanks
strip(f) == f.name

RECURSIVE SelectNonEmpty(_)
SelectNonEmpty(fields) ==
    IF fields = <<>> THEN <<>>
    ELSE IF strip(Head(fields)) # ""
         THEN <<strip(Head(fields))>> \o SelectNonEmpty(Tail(fields))
         ELSE SelectNonEmpty(Tail(fields))

\* list.index: the first position of name, 0-based
IndexOf(header, name) ==
    (CHOOSE k \in DOMAIN header :
        header[k] = name /\ \A j \in DOMAIN header : j < k => header[j] # name) - 1

Has(header, name) == \E k \in DOMAIN header : header[k] = name

\* the outcomes of load_iv_csv(path, v_col_name, i_col_name) on a file
\* [header, rows].  np.loadtxt(..., usecols=(idx_v, idx_i)) of a file with
\* no data rows gives shape (0, 2) (two empty columns) or shape (0,) (then
\* data[0] raises), depending on the numpy version.
load_iv_csv(file, v_col_name, i_col_name) ==
    LET header == SelectNonEmpty(file.header)
        idx_v  == IndexOf(header, v_col_name)
        idx_i  == IndexOf(header, i_col_name)
        col(c) == [k \in DOMAIN file.rows |-> file.rows[k][c + 1]]
    IN  IF header = <<>> THEN {Raise(EmptyHeader, TRUE)}
        ELSE IF ~Has(header, v_col_name)
             THEN {Raise(MissingColumn(VColMissing, v_col_name, header), TRUE)}
        ELSE IF ~Has(header, i_col_name)
             THEN {Raise(MissingColumn(IColMissing, i_col_name, header), TRUE)}
        ELSE IF file.rows = <<>>
             THEN {Return(<<<<>>, <<>>>>, TRUE), Raise(NoData, TRUE)}
        ELSE {Return(<<col(idx_v), col(idx_i)>>, TRUE)}

---------------------------------------------------------------------------
(* Metrics and their two serialisations *)

\* lines 366-373 with every exception swallowed
compute_metrics_swallow(x, y, a) ==
    UNION {
        IF g.err # NoErr THEN {Return(<<Unset, Unset, Unset, Unset>>, TRUE)}
        ELSE LET on  == current_at(x, y, a.v_on)
                 off == current_at(x, y, a.v_off)
             IN  {Return(<<g.val[1], g.val[2], on.val, off.val>>, TRUE)}
        : g \in compute_small_signal_g0(x, y, a.delta_g0)}

\* lines 366-373, the try block: g0 and r0, then ion, then ioff; the first
\* exception ends it.  Outcomes: Return(<<g0, r0, ion, ioff>>) or Raise.
compute_metrics(x, y, a) ==
    UNION {
        IF g.err # NoErr THEN {g}
        ELSE LET on  == current_at(x, y, a.v_on)
                 off == current_at(x, y, a.v_off)
             IN  IF on.err # NoErr THEN {on}
                 ELSE IF off.err # NoErr THEN {off}
                 ELSE {Return(<<g.val[1], g.val[2], on.val, off.val>>, TRUE)}
        : g \in compute_small_signal_g0(x, y, a.delta_g0)}

\* lines 375-384: the metrics dict, in insertion order
build_metrics(path, a, g, r, on, off) ==
    << <<"csv_file", Str(path)>>,
       <<"v_on_V", Fin(a.v_on, 1)>>,
       <<"v_off_V", Fin(a.v_off, 1)>>,
       <<"delta_g0_window_V", Fin(a.delta_g0, 1)>>,
       <<"g0_S", g>>,
       <<"R0_ohm", r>>,
       <<"Ion_A", on>>,
       <<"Ioff_A", off>>
    >>

\* json.dump of one value: a float by float.__repr__ (<<"num", n, d>> is
\* the shortest decimal that reads back as n/d), the non-finite ones as
\* Infinity / NaN, a str quoted, None as null
json_token(val) ==
    IF val[1] = "fin" THEN <<"num", val[2], val[3]>>
    ELSE IF val[1] = "inf" THEN <<"word", "Infinity">>
    ELSE IF val[1] = "nan" THEN <<"word", "NaN">>
    ELSE IF val[1] = "str" THEN <<"quoted", val[2]>>
    ELSE <<"word", "null">>

\* a float printed with no fraction digits
txt_token_rounded(val) ==
    IF val[1] = "fin" THEN <<"num", val[2] \div val[3], 1>>
    ELSE IF val[1] = "inf" THEN <<"word", "inf">>
    ELSE IF val[1] = "nan" THEN <<"word", "nan">>
    ELSE IF val[1] = "str" THEN <<"bare", val[2]>>
    ELSE <<"word", "None">>

\* f"{value}": str() of a float is its repr, inf and nan in lower case, a
\* str as it is, None as None
txt_token(val) ==
    IF val[1] = "fin" THEN <<"num", val[2], val[3]>>
    ELSE IF val[1] = "inf" THEN <<"word", "inf">>
    ELSE IF val[1] = "nan" THEN <<"word", "nan">>
    ELSE IF val[1] = "str" THEN <<"bare", val[2]>>
    ELSE <<"word", "None">>

\* lines 390-391: json.dump(metrics, f_json, indent=2)
json_dump(m) == [k \in DOMAIN m |-> <<m[k][1], json_token(m[k][2])>>]

\* lines 393-397: the banner, then one "key: value" line per entry
write_txt(m) ==
    [banner |-> <<"Nanopore I-V Metrics", "====================", "">>,
     lines  |-> [k \in DOMAIN m |-> <<m[k][1], txt_token(m[k][2])>>]]

---------------------------------------------------------------------------
(* main *)

F(n) == [name |-> n, pad |-> FALSE]

P(n) == [name |-> n, pad |-> TRUE]

\* header lines: plain, reordered and padded, with an empty field, without
\* the current column, without the voltage column, with no name at all
Headers ==
    { <<F("V"), F("I"), F("t")>>,
      <<F("t"), P("I"), P("V")>>,
      <<F("V"), F(""), F("I")>>,
      <<F("V"), F("t"), F("x")>>,
      <<F("t"), F("I"), F("x")>>,
      <<F(""), P(""), F("")>> }

\* the CSV files main may read: a header line and up to MaxRows rows of
\* three cells
CsvFiles == [header : Headers, rows : SeqsUpTo([1..3 -> CellVals], MaxRows)]

\* what main creates under out_dir
OutputNames == {"analysis", "iv_metrics.json", "iv_metrics.txt",
                "iv_curve.png", "iv_curve_log.png"}

MetricsFiles == {"iv_metrics.json", "iv_metrics.txt"}

ArgsSet == [input : {"none", "a.csv", "c.csv"}, v_col : {"V"}, i_col : {"I"},
            v_on : {1}, v_off : {0}, delta_g0 : {0, 1}, log_plot : BOOLEAN]

\* blocked: the names under out_dir's parent that cannot be created or
\* opened for writing (a directory where the file should go, a file where
\* the directory should go, no write permission)
FsSet ==
    {f \in [dir : BOOLEAN, csvs : SUBSET {"a.csv", "b.csv"},
            blocked : {{}} \cup {{n} : n \in OutputNames}] :
        ~f.dir => (f.csvs = {} /\ f.blocked = {})}

ResultsDirMissing == "ERROR: Results directory not found."

\* an uncaught OSError from mkdir, open or savefig on a blocked name
Blocked(name) == "OSError: " \o name

Init ==
    /\ pc = "resolve"
    /\ args \in ArgsSet
    /\ fs \in FsSet
    /\ csv_path = "none"
    /\ header_line = <<>>
    /\ v = <<>>
    /\ i = <<>>
    /\ g0 = Unset
    /\ r0 = Unset
    /\ ion = Unset
    /\ ioff = Unset
    /\ metrics = <<>>
    /\ written = {}
    /\ jsonOut = <<>>
    /\ txtOut = NoTxt
    /\ err = NoErr
    /\ status = -1
    /\ call = NoCall

\* a failure path that returns 0
FailZero(e) == pc' = "exit" /\ err' = e /\ status' = 0

\* the run ends with exit status 1: main returns 1, or an uncaught
\* exception ends the interpreter
Fail(e) == pc' = "exit" /\ err' = e /\ status' = 1

\* lines 317-336
ResolveResultsDir ==
    /\ pc = "resolve"
    /\ IF fs.dir THEN pc' = "find" /\ UNCHANGED <<err, status>>
       ELSE Fail(ResultsDirMissing)
    /\ UNCHANGED <<args, fs, csv_path, header_line, v, i, g0, r0, ion, ioff, metrics,
                   written, jsonOut, txtOut, call>>

\* lines 338-347
FindCsv ==
    /\ pc = "find"
    /\ LET out == find_csv_file(fs.csvs, args.input)
       IN  IF out.err = NoErr
           THEN pc' = "load" /\ csv_path' = out.val /\ UNCHANGED <<err, status>>
           ELSE Fail(out.err) /\ UNCHANGED csv_path
    /\ UNCHANGED <<args, fs, header_line, v, i, g0, r0, ion, ioff, metrics,
                   written, jsonOut, txtOut, call>>

\* lines 349-355
LoadCsv ==
    /\ pc = "load"
    /\ \E file \in CsvFiles : \E out \in load_iv_csv(file, args.v_col, args.i_col) :
          /\ header_line' = file.header
          /\ IF out.err = NoErr
             THEN /\ pc' = "mkdir"
                  /\ v' = out.val[1]
                  /\ i' = out.val[2]
                  /\ UNCHANGED <<err, status>>
             ELSE Fail(out.err) /\ UNCHANGED <<v, i>>
    /\ UNCHANGED <<args, fs, csv_path, g0, r0, ion, ioff, metrics, written,
                   jsonOut, txtOut, call>>

\* lines 357-363: out_dir.mkdir(parents=True, exist_ok=True)
MakeOutDir ==
    /\ pc = "mkdir"
    /\ IF "analysis" \in fs.blocked THEN Fail(Blocked("analysis"))
       ELSE pc' = "metrics" /\ UNCHANGED <<err, status>>
    /\ UNCHANGED <<args, fs, csv_path, header_line, v, i, g0, r0, ion, ioff, metrics,
                   written, jsonOut, txtOut, call>>

\* lines 365-384
ComputeMetrics ==
    /\ pc = "metrics"
    /\ \E out \in compute_metrics(v, i, args) :
          IF out.err = NoErr
          THEN /\ pc' = "json"
               /\ g0' = out.val[1]
               /\ r0' = out.val[2]
               /\ ion' = out.val[3]
               /\ ioff' = out.val[4]
               /\ metrics' = build_metrics(csv_path, args, out.val[1],
                                           out.val[2], out.val[3], out.val[4])
               /\ UNCHANGED <<err, status>>
          ELSE Fail(out.err) /\ UNCHANGED <<g0, r0, ion, ioff, metrics>>
    /\ UNCHANGED <<args, fs, csv_path, header_line, v, i, written, jsonOut, txtOut, call>>

\* lines 386-391
WriteJson ==
    /\ pc = "json"
    /\ IF "iv_metrics.json" \in fs.blocked
       THEN Fail(Blocked("iv_metrics.json")) /\ UNCHANGED <<written, jsonOut>>
       ELSE /\ pc' = "txt"
            /\ written' = written \cup {"iv_metrics.json"}
            /\ jsonOut' = json_dump(metrics)
            /\ UNCHANGED <<err, status>>
    /\ UNCHANGED <<args, fs, csv_path, header_line, v, i, g0, r0, ion, ioff, metrics,
                   txtOut, call>>

\* lines 393-402
WriteTxt ==
    /\ pc = "txt"
    /\ IF "iv_metrics.txt" \in fs.blocked
       THEN Fail(Blocked("iv_metrics.txt")) /\ UNCHANGED <<written, txtOut>>
       ELSE /\ pc' = "plots"
            /\ written' = written \cup {"iv_metrics.txt"}
            /\ txtOut' = write_txt(metrics)
            /\ UNCHANGED <<err, status>>
    /\ UNCHANGED <<args, fs, csv_path, header_line, v, i, g0, r0, ion, ioff, metrics,
                   jsonOut, call>>

\* make_plots(v, i, out_dir, make_log): the files it has saved when it
\* returns or raises
make_plots(blocked, make_log) ==
    IF "iv_curve.png" \in blocked THEN [saved |-> {}, err |-> Blocked("iv_curve.png")]
    ELSE IF ~make_log THEN [saved |-> {"iv_curve.png"}, err |-> NoErr]
    ELSE IF "iv_curve_log.png" \in blocked
         THEN [saved |-> {"iv_curve.png"}, err |-> Blocked("iv_curve_log.png")]
    ELSE [saved |-> {"iv_curve.png", "iv_curve_log.png"}, err |-> NoErr]

\* lines 404-417
Plots ==
    /\ pc = "plots"
    /\ LET out == make_plots(fs.blocked, args.log_plot)
       IN  /\ written' = written \cup out.saved
           /\ IF out.err = NoErr
              THEN pc' = "exit" /\ status' = 0 /\ UNCHANGED err
              ELSE Fail(out.err)
    /\ UNCHANGED <<args, fs, csv_path, header_line, v, i, g0, r0, ion, ioff, metrics,
                   jsonOut, txtOut, call>>

Next ==
    \/ ResolveResultsDir
    \/ FindCsv
    \/ LoadCsv
    \/ MakeOutDir
    \/ ComputeMetrics
    \/ WriteJson
    \/ WriteTxt
    \/ Plots

Spec == Init /\ [][Next]_vars

---------------------------------------------------------------------------
(* Claims about a run of main, under Spec *)

Exited == pc = "exit"

MetricErrors == {InvalidFitWindow, EmptySeries, PolyfitEmpty, SvdFailed}

\* C7: every failing run leaves no output file behind: when a run ends with
\* a non-zero status, at whatever stage, none of the files it wrote exists.
C7_FailureLeavesNoFile ==
    (Exited /\ status # 0) => written = {}

\* C8: a metrics file is written only after g0, r0, the on-current and the
\* off-current have all been computed, and a run whose metric computation
\* failed has written no metrics file.
C8_MetricsAllOrNothing ==
    /\ (written \cap MetricsFiles # {}) =>
          /\ Unset \notin {g0, r0, ion, ioff}
          /\ err \notin MetricErrors
    /\ (Exited /\ err \in MetricErrors) => written \cap MetricsFiles = {}

\* a run that ended in the metric computation, after the output directory
\* was made
C8_Witness ==
    Exited /\ err \in MetricErrors /\ status = 1 /\ written = {}

\* the value a JSON token denotes (json.loads reads Infinity and NaN)
json_value(tok) ==
    IF tok[1] = "num" THEN Fin(tok[2], tok[3])
    ELSE IF tok = <<"word", "Infinity">> THEN Inf
    ELSE IF tok = <<"word", "NaN">> THEN NaN
    ELSE Str(tok[2])

\* the value the text after "key: " denotes (float() reads inf and nan)
txt_value(tok) ==
    IF tok[1] = "num" THEN Fin(tok[2], tok[3])
    ELSE IF tok = <<"word", "inf">> THEN Inf
    ELSE IF tok = <<"word", "nan">> THEN NaN
    ELSE Str(tok[2])

FieldOrder == <<"csv_file", "v_on_V", "v_off_V", "delta_g0_window_V",
                "g0_S", "R0_ohm", "Ion_A", "Ioff_A">>

BothWritten == MetricsFiles \subseteq written

\* C9: the JSON metrics and the text metrics of a run hold the same fields
\* in the same order (source file, on voltage, off voltage, fit window, g0,
\* r0, on-current, off-current) with the same value in every field, the
\* value the metrics mapping holds.
C9_JsonAndTextAgree ==
    BothWritten =>
        /\ Len(jsonOut) = Len(FieldOrder)
        /\ Len(txtOut.lines) = Len(FieldOrder)
        /\ \A k \in DOMAIN FieldOrder :
              /\ jsonOut[k][1] = FieldOrder[k]
              /\ txtOut.lines[k][1] = FieldOrder[k]
              /\ json_value(jsonOut[k][2]) = txt_value(txtOut.lines[k][2])
              /\ json_value(jsonOut[k][2]) = metrics[k][2]

\* both files written in a run with g0 = 0: r0 is +inf, which the two
\* forms spell differently
C9_Witness ==
    /\ BothWritten
    /\ IsZero(g0)
    /\ jsonOut[6] = <<"R0_ohm", <<"word", "Infinity">>>>
    /\ txtOut.lines[6] = <<"R0_ohm", <<"word", "inf">>>>

\* C10: with no input given and more than one CSV file in the results
\* directory, find_csv_file fails with the ambiguous-input error and no file
\* is selected; with an input given, no run fails with that error.
C10_AmbiguousInputFails ==
    /\ (fs.dir /\ args.input = "none" /\ Cardinality(fs.csvs) > 1
          /\ pc \notin {"resolve", "find"}) =>
          (Exited /\ err = AmbiguousInput /\ status = 1 /\ csv_path = "none")
    /\ args.input # "none" => err # AmbiguousInput

\* a run with two CSV files and no input given, past input resolution
C10_Witness ==
    /\ args.input = "none"
    /\ Cardinality(fs.csvs) = 2
    /\ Exited
    /\ err = AmbiguousInput

---------------------------------------------------------------------------
(* Claims about the header of the input file, under Spec *)

\* load_iv_csv has read the header line
HeaderRead == header_line # <<>>

NamedField(f) == f.name # ""

\* the column names present in the header line: its non-empty fields, in
\* order, without the blanks around them
PresentNames ==
    LET kept == SelectSeq(header_line, NamedField)
    IN  [k \in DOMAIN kept |-> kept[k].name]

Absent(name) == \A k \in DOMAIN header_line : header_line[k].name # name

RECURSIVE Listed(_)
Listed(names) ==
    IF Len(names) = 0 THEN ""
    ELSE IF Len(names) = 1 THEN "'" \o names[1] \o "'"
    ELSE "'" \o names[1] \o "', " \o Listed(Tail(names))

\* the message that names the column and lists the names present
NamesAndLists(kind, name) ==
    kind \o " '" \o name \o "' not found. Available columns: ["
         \o Listed(PresentNames) \o "]"

NoMetricComputed == g0 = Unset /\ r0 = Unset /\ ion = Unset /\ ioff = Unset

ColumnErrorReported ==
    /\ Exited
    /\ status = 1
    /\ NoMetricComputed
    /\ err = IF Absent(args.v_col) THEN NamesAndLists(VColMissing, args.v_col)
             ELSE NamesAndLists(IColMissing, args.i_col)

\* C11 as stated: whenever the requested voltage or current column name is
\* absent from the header line, the run fails with an error that names the
\* missing column and lists exactly the names present in the header, with
\* status 1 and no metric computed.
C11_AbsentColumnNamed ==
    (HeaderRead /\ (Absent(args.v_col) \/ Absent(args.i_col))) =>
        ColumnErrorReported

\* C11 (amended): the same for a header line that holds at least one name;
\* a header line with no name at all fails with the empty-header error,
\* also with status 1 and no metric computed.
C11_AbsentColumnNamedInNamedHeader ==
    (HeaderRead /\ (Absent(args.v_col) \/ Absent(args.i_col))) =>
        IF PresentNames # <<>> THEN ColumnErrorReported
        ELSE Exited /\ status = 1 /\ NoMetricComputed /\ err = EmptyHeader

\* Scenario C: the header V,t,x lacks the current column I
C11_Witness ==
    /\ header_line = <<F("V"), F("t"), F("x")>>
    /\ Exited
    /\ err = "ValueError: Current column 'I' not found. Available columns: ['V', 't', 'x']"

---------------------------------------------------------------------------
(* Claims about the exit status, under Spec *)

\* input resolved, data loaded, all metrics computed, both metrics files
\* and the plots written
SuccessfulRun ==
    /\ csv_path # "none"
    /\ HeaderRead
    /\ Unset \notin {g0, r0, ion, ioff}
    /\ MetricsFiles \subseteq written
    /\ "iv_curve.png" \in written
    /\ args.log_plot => "iv_curve_log.png" \in written

\* the results location is missing, or the input cannot be resolved
InputUnresolved ==
    \/ ~fs.dir
    \/ args.input # "none" /\ args.input \notin fs.csvs
    \/ args.input = "none" /\ Cardinality(fs.csvs) # 1

\* loading failed: a header without names or without a requested column
LoadFailed ==
    /\ HeaderRead
    /\ (PresentNames = <<>> \/ Absent(args.v_col) \/ Absent(args.i_col)
          \/ err = NoData)

\* C12: main exits with 0 exactly on a successful run, and with 1 whenever
\* the results location is missing, the input is absent or ambiguous,
\* loading fails or metric computation fails; there is no other exit code.
C12_ExitCode ==
    Exited =>
        /\ status \in {0, 1}
        /\ status = 0 <=> SuccessfulRun
        /\ (InputUnresolved \/ LoadFailed \/ err \in MetricErrors) => status = 1
        /\ status = 0 => err = NoErr

\* a run that succeeded, with the log plot asked for
C12_Witness ==
    /\ Exited
    /\ status = 0
    /\ args.log_plot
    /\ written = {"iv_metrics.json", "iv_metrics.txt", "iv_curve.png",
                  "iv_curve_log.png"}

---------------------------------------------------------------------------
(* Text lines of the MOSFET data files (plot_fet.py, plot_av.py,             *)
(* plot_gmId.py).  A line is a sequence of one-character strings, without  *)
(* its line end; " " is the only white space.                              *)

RECURSIVE lstrip(_)
lstrip(s) == IF s # <<>> /\ Head(s) = " " THEN lstrip(Tail(s)) ELSE s

RECURSIVE rstrip(_)
rstrip(s) ==
    IF s # <<>> /\ s[Len(s)] = " " THEN rstrip(SubSeq(s, 1, Len(s) - 1)) ELSE s

\* str.strip()
str_strip(s) == rstrip(lstrip(s))

\* line.startswith("#")
startswith_hash(s) == s # <<>> /\ s[1] = "#"

\* "=" in line
contains_eq(s) == \E k \in DOMAIN s : s[k] = "="

\* s.find(c) for a c that occurs in s, 1-based
RECURSIVE find(_, _, _)
find(s, c, k) == IF s[k] = c THEN k ELSE find(s, c, k + 1)

\* s.split("=", 1) for an s that holds "=": split at the first "="
split_eq_1(s) ==
    LET p == find(s, "=", 1)
    IN  <<SubSeq(s, 1, p - 1), SubSeq(s, p + 1, Len(s))>>

\* metadata[key] = val
dict_set(m, key, val) ==
    [k \in (DOMAIN m) \cup {key} |-> IF k = key THEN val ELSE m[k]]

EmptyDict == [k \in {} |-> <<>>]

\* the loop that goes on after a line that is not a comment
RECURSIVE scan_metadata_nobreak(_, _)
scan_metadata_nobreak(lines, metadata) ==
    IF lines = <<>> THEN metadata
    ELSE LET line == str_strip(Head(lines))
         IN  IF startswith_hash(line) /\ contains_eq(line)
             THEN LET kv == split_eq_1(Tail(line))
                  IN  scan_metadata_nobreak(Tail(lines),
                          dict_set(metadata, str_strip(kv[1]), str_strip(kv[2])))
             ELSE scan_metadata_nobreak(Tail(lines), metadata)

\* plot_fet.py lines 29-35: the loop over the lines, from the dict so far
RECURSIVE scan_metadata(_, _)
scan_metadata(lines, metadata) ==
    IF lines = <<>> THEN metadata
    ELSE LET line == str_strip(Head(lines))
         IN  IF startswith_hash(line) /\ contains_eq(line)
             THEN LET kv == split_eq_1(Tail(line))
                  IN  scan_metadata(Tail(lines),
                          dict_set(metadata, str_strip(kv[1]), str_strip(kv[2])))
             ELSE IF ~startswith_hash(line) THEN metadata
             ELSE scan_metadata(Tail(lines), metadata)

parse_metadata_nobreak(lines) == scan_metadata_nobreak(lines, EmptyDict)

\* parse_metadata(filepath) on the lines of the file
parse_metadata(lines) == scan_metadata(lines, EmptyDict)

---------------------------------------------------------------------------
(* load_data (plot_fet.py), and the same loop at module level in           *)
(* plot_av.py and plot_gmId.py                                             *)

NotANumber == "ValueError: could not convert string to float"

Inhomogeneous == "ValueError: setting an array element with a sequence"

Digits == <<"0", "1", "2", "3", "4", "5", "6", "7", "8", "9">>

IsDigit(c) == \E k \in DOMAIN Digits : Digits[k] = c

DigitVal(c) == (CHOOSE k \in DOMAIN Digits : Digits[k] = c) - 1

RECURSIVE decimal(_, _)
decimal(tok, acc) ==
    IF tok = <<>> THEN acc ELSE decimal(Tail(tok), 10 * acc + DigitVal(Head(tok)))

\* float(x) for a token x: its value, or the ValueError
float_of(tok) ==
    IF tok # <<>> /\ \A k \in DOMAIN tok : IsDigit(tok[k])
    THEN Return(Fin(decimal(tok, 0), 1), FALSE)
    ELSE Raise(NotANumber, FALSE)

\* the tokens of s between separators, empty tokens left out; cur is the
\* token being read
RECURSIVE tokens(_, _, _)
tokens(s, seps, cur) ==
    IF s = <<>> THEN (IF cur = <<>> THEN <<>> ELSE <<cur>>)
    ELSE IF Head(s) \in seps
         THEN (IF cur = <<>> THEN <<>> ELSE <<cur>>) \o tokens(Tail(s), seps, <<>>)
         ELSE tokens(Tail(s), seps, Append(cur, Head(s)))

\* a split that takes the comma for a separator as well
split_any(s) == tokens(s, {" ", ","}, <<>>)

\* line.split(): split at runs of white space
split(s) == tokens(s, {" "}, <<>>)

\* [float(x) for x in line.split()]: the row, or the ValueError of the
\* first token that is no number
parse_row(line) ==
    LET toks == split(line)
        vals == [k \in DOMAIN toks |-> float_of(toks[k])]
    IN  IF \E k \in DOMAIN vals : vals[k].err # NoErr
        THEN Raise(NotANumber, FALSE)
        ELSE Return([k \in DOMAIN vals |-> vals[k].val], FALSE)

\* lines 42-49: the loop over the lines, from the rows so far
RECURSIVE scan_rows(_, _)
scan_rows(lines, rows) ==
    IF lines = <<>> THEN rows
    ELSE LET line == str_strip(Head(lines))
             row  == parse_row(line)
         IN  IF line = <<>> \/ startswith_hash(line)
             THEN scan_rows(Tail(lines), rows)
             ELSE IF row.err # NoErr
                  THEN scan_rows(Tail(lines), rows)
                  ELSE scan_rows(Tail(lines), Append(rows, row.val))

read_rows(lines) == scan_rows(lines, <<>>)

\* np.array(rows): a table when the rows have one width; for rows of
\* differing widths numpy from 1.24 on raises, older numpy returns an array
\* of row objects
np_array(rows) ==
    IF \A j, k \in DOMAIN rows : Len(rows[j]) = Len(rows[k])
    THEN {Return(rows, TRUE)}
    ELSE {Raise(Inhomogeneous, TRUE), Return(rows, TRUE)}

\* load_data(filepath) on the lines of the file: the set of outcomes
load_data(lines) == np_array(read_rows(lines))

---------------------------------------------------------------------------
(* Calls of the file readers on the lines of a file *)

MaxLines == 3

HashKeyVal     == <<"#", " ", "a", " ", "=", " ", "1">>
HashKeyValEq   == <<"#", "a", "=", "1", "=", "2">>
HashNote       == <<"#", " ", "n", "o", "t", "e">>
HashEq         == <<"#", "=">>
IndentedHash   == <<" ", "#", " ", "b", " ", "=", " ", "3", " ">>
BlankLine      == <<>>
BareKeyVal     == <<"b", " ", "=", " ", "3">>
TwoNumbers     == <<"1", " ", "2">>
OneNumber      == <<"3">>
PaddedNumbers  == <<" ", "4", " ", " ", "1", "5", " ">>
CommaNumbers   == <<"1", ",", "2">>
NumberAndWord  == <<"1", " ", "x">>

TextLines ==
    {HashKeyVal, HashKeyValEq, HashNote, HashEq, IndentedHash, BlankLine,
     BareKeyVal, TwoNumbers, OneNumber, PaddedNumbers, CommaNumbers,
     NumberAndWord}

TextFiles == SeqsUpTo(TextLines, MaxLines)

InitText ==
    /\ pc = "text"
    /\ \E lines \in TextFiles :
          call = [fn |-> "none", arg |-> lines, out |-> Return(<<>>, FALSE)]
    /\ v = <<>>
    /\ i = <<>>
    /\ args = NoArgs
    /\ fs = NoFs
    /\ csv_path = "none"
    /\ header_line = <<>>
    /\ g0 = Unset
    /\ r0 = Unset
    /\ ion = Unset
    /\ ioff = Unset
    /\ metrics = <<>>
    /\ written = {}
    /\ jsonOut = <<>>
    /\ txtOut = NoTxt
    /\ err = NoErr
    /\ status = -1

CallParseMetadata ==
    /\ pc = "text"
    /\ call.fn = "none"
    /\ call' = [fn |-> "parse_metadata", arg |-> call.arg,
                out |-> Return(parse_metadata(call.arg), TRUE)]
    /\ UNCHANGED <<pc, args, fs, csv_path, header_line, v, i, g0, r0, ion, ioff, metrics,
                   written, jsonOut, txtOut, err, status>>

CallLoadData ==
    /\ pc = "text"
    /\ call.fn = "none"
    /\ \E out \in load_data(call.arg) :
          call' = [fn |-> "load_data", arg |-> call.arg,
                   rows |-> read_rows(call.arg), out |-> out]
    /\ UNCHANGED <<pc, args, fs, csv_path, header_line, v, i, g0, r0, ion, ioff, metrics,
                   written, jsonOut, txtOut, err, status>>

NextText == CallParseMetadata \/ CallLoadData

SpecText == InitText /\ [][NextText]_vars

---------------------------------------------------------------------------
(* Claim C13 *)

\* s without its leading and trailing blanks
Trimmed(s) ==
    IF \A k \in DOMAIN s : s[k] = " " THEN <<>>
    ELSE LET a == CHOOSE a \in DOMAIN s :
                      s[a] # " " /\ \A j \in 1..(a - 1) : s[j] = " "
             b == CHOOSE b \in DOMAIN s :
                      s[b] # " " /\ \A j \in (b + 1)..Len(s) : s[j] = " "
         IN  SubSeq(s, a, b)

\* the first character of l that is not a blank is "#"
IsCommentLine(l) == \E h \in DOMAIN l : l[h] = "#" /\ \A j \in 1..(h - 1) : l[j] = " "

IsEntry(l) == IsCommentLine(l) /\ \E e \in DOMAIN l : l[e] = "="

HashAt(l) == CHOOSE h \in DOMAIN l : l[h] = "#" /\ \A j \in 1..(h - 1) : l[j] = " "

FirstEq(l) == CHOOSE e \in DOMAIN l : l[e] = "=" /\ \A j \in 1..(e - 1) : l[j] # "="

KeyOf(l) == Trimmed(SubSeq(l, HashAt(l) + 1, FirstEq(l) - 1))

ValueOf(l) == Trimmed(SubSeq(l, FirstEq(l) + 1, Len(l)))

\* the comment lines that precede the first line that is not a comment
Preamble(lines) ==
    LET stop == {k \in DOMAIN lines : ~IsCommentLine(lines[k])}
    IN  IF stop = {} THEN lines
        ELSE SubSeq(lines, 1, (CHOOSE k \in stop : \A j \in stop : k <= j) - 1)

MetadataParsed == pc = "text" /\ call.fn = "parse_metadata"

\* C13: parse_metadata returns exactly the entries of the comment lines before
\* the first line that is not a comment: every such line that holds "="
\* gives the key left of its first "=" and the value right of it, both
\* trimmed; the last line of a key gives its value; comment lines without
\* "=" give nothing, and no line from the first non-comment line on does.
C13_MetadataFromPreamble ==
    MetadataParsed =>
        LET pre     == Preamble(call.arg)
            m       == call.out.val
            entries == {k \in DOMAIN pre : IsEntry(pre[k])}
        IN  /\ call.out.err = NoErr
            /\ DOMAIN m = {KeyOf(pre[k]) : k \in entries}
            /\ \A k \in entries :
                   (\A j \in entries : j > k => KeyOf(pre[j]) # KeyOf(pre[k]))
                       => m[KeyOf(pre[k])] = ValueOf(pre[k])

C13_Witness ==
    /\ MetadataParsed
    /\ call.arg = <<HashKeyValEq, TwoNumbers, IndentedHash>>
    /\ DOMAIN call.out.val = {<<"a">>}
    /\ call.out.val[<<"a">>] = <<"1", "=", "2">>

---------------------------------------------------------------------------
(* Claims C14, C15, C16 *)

DataLoaded == pc = "text" /\ call.fn = "load_data"

\* the maximal runs <<a, b>> of characters of l that are no separators
Runs(l, seps) ==
    {r \in (DOMAIN l) \X (DOMAIN l) :
        /\ r[1] <= r[2]
        /\ \A k \in r[1]..r[2] : l[k] \notin seps
        /\ r[1] = 1 \/ l[r[1] - 1] \in seps
        /\ r[2] = Len(l) \/ l[r[2] + 1] \in seps}

\* the fields of l, from left to right
Fields(l, seps) ==
    LET runs == Runs(l, seps)
        ord  == CHOOSE f \in [1..Cardinality(runs) -> runs] :
                    \A j, k \in 1..Cardinality(runs) : j < k => f[j][1] < f[k][1]
    IN  [k \in 1..Cardinality(runs) |-> SubSeq(l, ord[k][1], ord[k][2])]

IsNumber(tok) == tok # <<>> /\ \A k \in DOMAIN tok : IsDigit(tok[k])

IsBlank(l) == \A k \in DOMAIN l : l[k] = " "

\* a line that is not blank, is no comment, and whose every field is a number
NumericLine(l, seps) ==
    /\ ~IsBlank(l)
    /\ ~IsCommentLine(l)
    /\ \A k \in DOMAIN Fields(l, seps) : IsNumber(Fields(l, seps)[k])

RowOf(l, seps) ==
    [k \in DOMAIN Fields(l, seps) |-> Fin(decimal(Fields(l, seps)[k], 0), 1)]

WhiteSpace == {" "}

IsWsNumeric(l) == NumericLine(l, WhiteSpace)

\* the rows of the numeric lines, in file order
ExpectedRows(lines) ==
    LET kept == SelectSeq(lines, IsWsNumeric)
    IN  [k \in DOMAIN kept |-> RowOf(kept[k], WhiteSpace)]

\* C14: the output of the tabular loader is exactly the rows of the lines
\* that are not blank, are no comments and hold only numbers, in file order;
\* no line makes the load fail.
C14_OutputIsNumericLines ==
    DataLoaded =>
        /\ call.out.err = NoErr
        /\ call.out.val = ExpectedRows(call.arg)

\* a line whose numeric fields are separated by commas
CommaLine(l) ==
    /\ \E k \in DOMAIN l : l[k] = ","
    /\ NumericLine(l, {" ", ","})

\* C15, in the wording of the specification: a line of numeric fields separated by commas is appended
\* as one numeric row of those fields.
C15_CommaLineIsARow ==
    DataLoaded =>
        \A k \in DOMAIN call.arg :
            CommaLine(call.arg[k]) =>
                \E r \in DOMAIN call.rows :
                    call.rows[r] = RowOf(call.arg[k], {" ", ","})

\* C15, as the code has it: the loader splits at white space only.  The rows it appends
\* are those of the lines whose white-space-separated fields are all
\* numbers, so a line with a comma between its numbers appends nothing,
\* and a returned table holds exactly these rows.
C15_WhitespaceOnly ==
    DataLoaded =>
        /\ call.rows = ExpectedRows(call.arg)
        /\ \A k \in DOMAIN call.arg :
               CommaLine(call.arg[k]) => ~IsWsNumeric(call.arg[k])
        /\ call.out.err = NoErr => call.out.val = call.rows

C15_Witness ==
    /\ DataLoaded
    /\ call.arg = <<CommaNumbers, PaddedNumbers>>
    /\ call.rows = <<<<Fin(4, 1), Fin(15, 1)>>>>
    /\ call.out = Return(call.rows, TRUE)

\* C16: every call of the tabular loader returns a table whose rows all have
\* the same number of columns.
C16_TableIsRectangular ==
    DataLoaded =>
        /\ call.out.err = NoErr
        /\ \A j, k \in DOMAIN call.out.val :
               Len(call.out.val[j]) = Len(call.out.val[k])

---------------------------------------------------------------------------
(* Claim C17 *)

\* current_at raises the empty-series error exactly on a series of length 0
CurrentAtEmptyIff ==
    call.fn = "current_at" => (call.out.err = EmptySeries <=> Len(v) = 0)

\* a run of main that loaded a series without samples and went on to the
\* metric computation with a valid window
EmptySeriesRun ==
    /\ Exited
    /\ HeaderRead
    /\ ~LoadFailed
    /\ ~InputUnresolved
    /\ "analysis" \notin fs.blocked
    /\ args.delta_g0 > 0
    /\ Len(v) = 0

\* C17: current_at fails with the empty-series error if and only if the
\* series has length 0, and a run of main whose loaded series is empty
\* reports this empty-series error.
C17_EmptySeriesReported ==
    /\ CurrentAtEmptyIff
    /\ EmptySeriesRun => (status = 1 /\ err = EmptySeries)

---------------------------------------------------------------------------
(* Calls of load_iv_csv on a file *)

\* a header line that names a column twice
RepeatedHeader == <<F("V"), F("V"), F("I")>>

InitCsv ==
    /\ pc = "csv"
    /\ \E file \in [header : Headers \cup {RepeatedHeader},
                    rows : SeqsUpTo([1..3 -> CellVals], MaxRows)] :
          call = [fn |-> "none", arg |-> file, out |-> Return(<<>>, FALSE)]
    /\ v = <<>>
    /\ i = <<>>
    /\ args = NoArgs
    /\ fs = NoFs
    /\ csv_path = "none"
    /\ header_line = <<>>
    /\ g0 = Unset
    /\ r0 = Unset
    /\ ion = Unset
    /\ ioff = Unset
    /\ metrics = <<>>
    /\ written = {}
    /\ jsonOut = <<>>
    /\ txtOut = NoTxt
    /\ err = NoErr
    /\ status = -1

CallLoadIvCsv ==
    /\ pc = "csv"
    /\ call.fn = "none"
    /\ \E out \in load_iv_csv(call.arg, args.v_col, args.i_col) :
          call' = [fn |-> "load_iv_csv", arg |-> call.arg, out |-> out]
    /\ UNCHANGED <<pc, args, fs, csv_path, header_line, v, i, g0, r0, ion, ioff, metrics,
                   written, jsonOut, txtOut, err, status>>

NextCsv == CallLoadIvCsv

SpecCsv == InitCsv /\ [][NextCsv]_vars

---------------------------------------------------------------------------
(* Claim C18 *)

\* the position of name among the fields of the header line as written:
\* the first field that holds it
WrittenAt(fields, name, k) ==
    /\ k \in DOMAIN fields
    /\ fields[k].name = name
    /\ \A j \in 1..(k - 1) : fields[j].name # name

ColumnUnder(file, k) == [r \in DOMAIN file.rows |-> file.rows[r][k]]

\* C18: when load_iv_csv returns, the V and I it returns are the columns of
\* the data rows at the positions that the requested names have among the
\* fields of the header line as written.
C18_ColumnsUnderTheirNames ==
    (pc = "csv" /\ call.fn = "load_iv_csv" /\ call.out.err = NoErr) =>
        \A kv, ki \in DOMAIN call.arg.header :
            (/\ WrittenAt(call.arg.header, args.v_col, kv)
             /\ WrittenAt(call.arg.header, args.i_col, ki))
                => /\ call.out.val[1] = ColumnUnder(call.arg, kv)
                   /\ call.out.val[2] = ColumnUnder(call.arg, ki)

====
